---- MODULE Spec2Model ----
(***************************************************************************)
(* Model of src/vector.py: the Vector value type over decimal.Decimal.     *)
(*                                                                         *)
(* A Python number is modelled by a record [t, c, e]: its type tag t and   *)
(* its numeric value c * 10^e in canonical form (c has no trailing zero,   *)
(* zero is c = 0, e = 0).  Decimal compares by numeric value, and no       *)
(* modelled operation observes the trailing zeros of a Decimal, so the     *)
(* canonical form loses nothing the operations can see.                    *)
(*                                                                         *)
(* The decimal context precision (getcontext().prec = 30 in the source)    *)
(* and the precision of a float (53 bits) are scaled down to prec and      *)
(* FloatDigits significant digits, because TLC integers are 32 bits wide.  *)
(* Every rounding rule is the one of the decimal module (ROUND_HALF_EVEN   *)
(* to prec significant digits after each arithmetic operation, none in     *)
(* the Decimal constructor).                                               *)
(***************************************************************************)
EXTENDS Integers, Sequences, FiniteSets, TLC

\* Scaled-down decimal context precision (significant digits).
prec == 3

\* Scaled-down precision of a float (significant digits).
FloatDigits == 3

\* Largest number of calls in one behaviour.
MaxCalls == 3

----------------------------------------------------------------------------
(* Integer helpers *)

Abs(n) == IF n < 0 THEN -n ELSE n

Sign(n) == IF n < 0 THEN -1 ELSE 1

Min(a, b) == IF a < b THEN a ELSE b

\* the element of a one-element set.  Only({f(x) : x \in {e}}) evaluates e
\* once and names its value x, as an assignment to a local variable does.
Only(S) == CHOOSE x \in S : TRUE

RECURSIVE Pow10(_)
Pow10(n) == IF n <= 0 THEN 1 ELSE 10 * Pow10(n - 1)

\* len(str(n)) for n >= 0
RECURSIVE Digits(_)
Digits(n) == IF n < 10 THEN 1 ELSE 1 + Digits(n \div 10)

RECURSIVE ISqrtB(_, _, _)
ISqrtB(n, lo, hi) ==
    IF lo >= hi THEN lo
    ELSE LET mid == (lo + hi + 1) \div 2
         IN  IF mid * mid <= n THEN ISqrtB(n, mid, hi) ELSE ISqrtB(n, lo, mid - 1)

\* floor of the square root of n >= 0
ISqrt(n) == ISqrtB(n, 0, Min(n, 46340))

----------------------------------------------------------------------------
(* Python values *)

RECURSIVE Canon(_, _)
Canon(c, e) ==
    IF c = 0 THEN [c |-> 0, e |-> 0]
    ELSE IF c % 10 = 0 THEN Canon(c \div 10, e + 1)
    ELSE [c |-> c, e |-> e]

Dec(c, e) == [t |-> "Decimal", c |-> Canon(c, e).c, e |-> Canon(c, e).e]

PyInt(n) == [t |-> "int", c |-> Canon(n, 0).c, e |-> Canon(n, 0).e]

\* the string '0' that cross appends to a 2-dimensional operand
PyStr0 == [t |-> "str", c |-> 0, e |-> 0]

PyBool(b) == [t |-> "bool", c |-> IF b THEN 1 ELSE 0, e |-> 0]

\* a float holding an angle, in millionths of a radian or of a degree
PyFloat(micro) == [t |-> "float", c |-> micro, e |-> -6]

None == [t |-> "None", c |-> 0, e |-> 0]

\* Decimal(x): exact conversion of an int, a numeric string or a Decimal;
\* the constructor does not round to the context precision.
Decimal(x) == Dec(x.c, x.e)

----------------------------------------------------------------------------
(* decimal arithmetic under the context precision *)

\* c * 10^e with the coefficient rounded half-even to p significant digits
RoundSig(c, e, p) ==
    LET a == Abs(c)
        d == Digits(a)
    IN  IF d <= p THEN Dec(c, e)
        ELSE LET k  == d - p
                 q  == a \div Pow10(k)
                 r  == a % Pow10(k)
                 h  == 5 * Pow10(k - 1)
                 up == r > h \/ (r = h /\ q % 2 = 1)
             IN  Dec(Sign(c) * (IF up THEN q + 1 ELSE q), e + k)

\* Decimal._fix: the result of an arithmetic operation, rounded to the
\* context precision
Fix(c, e) == RoundSig(c, e, prec)

\* Decimal.__add__ with decimal._normalize: the operand of smaller exponent
\* is replaced by a unit far below the last kept digit when it cannot
\* affect the rounded sum otherwise.
DecAdd(x, y) ==
    IF x.c = 0 THEN Fix(y.c, y.e)
    ELSE IF y.c = 0 THEN Fix(x.c, x.e)
    ELSE LET tmp    == IF x.e < y.e THEN y ELSE x
             other  == IF x.e < y.e THEN x ELSE y
             tlen   == Digits(Abs(tmp.c))
             olen   == Digits(Abs(other.c))
             exp    == tmp.e + Min(-1, tlen - prec - 2)
             small  == olen + other.e - 1 < exp
             oc     == IF small THEN Sign(other.c) ELSE other.c
             oe     == IF small THEN exp ELSE other.e
         IN  Fix(tmp.c * Pow10(tmp.e - oe) + oc, oe)

DecNeg(x) == Dec(-x.c, x.e)

DecSub(x, y) == DecAdd(x, DecNeg(y))

DecMul(x, y) == Fix(x.c * y.c, x.e + y.e)

\* Decimal.__truediv__ for a nonzero divisor
DecDiv(x, y) ==
    LET shift == Digits(Abs(y.c)) - Digits(Abs(x.c)) + prec + 1
        exp   == x.e - y.e - shift
        num   == IF shift >= 0 THEN Abs(x.c) * Pow10(shift) ELSE Abs(x.c)
        den   == IF shift >= 0 THEN Abs(y.c) ELSE Abs(y.c) * Pow10(-shift)
        q     == num \div den
        r     == num % den
        coeff == IF r # 0 /\ q % 5 = 0 THEN q + 1 ELSE q
    IN  Fix(Sign(x.c) * Sign(y.c) * coeff, exp)

\* x < y by numeric value
DecLt(x, y) ==
    IF x.c = 0 \/ y.c = 0 \/ Sign(x.c) # Sign(y.c) THEN x.c < y.c
    ELSE LET ax == Digits(Abs(x.c)) + x.e
             ay == Digits(Abs(y.c)) + y.e
         IN  IF ax # ay THEN (IF x.c > 0 THEN ax < ay ELSE ax > ay)
             ELSE LET m == Min(x.e, y.e)
                  IN  x.c * Pow10(x.e - m) < y.c * Pow10(y.e - m)

DecAbs(x) == Dec(Abs(x.c), x.e)

\* round(x, places) of a Decimal: quantize to 10^-places, half-even
DecRound(x, places) ==
    IF x.e >= -places THEN x
    ELSE LET k  == -places - x.e
             a  == Abs(x.c)
             q  == a \div Pow10(k)
             r  == a % Pow10(k)
             h  == 5 * Pow10(k - 1)
             up == r > h \/ (r = h /\ q % 2 = 1)
         IN  Dec(Sign(x.c) * (IF up THEN q + 1 ELSE q), -places)

\* sum(xs): left fold of + from the int 0
RECURSIVE DecSum(_)
DecSum(xs) ==
    IF xs = <<>> THEN Dec(0, 0)
    ELSE DecAdd(DecSum(SubSeq(xs, 1, Len(xs) - 1)), xs[Len(xs)])

----------------------------------------------------------------------------
(* math.sqrt and math.acos on floats *)

\* float(x): the nearest float, here the nearest FloatDigits-digit number
FloatOf(x) == RoundSig(x.c, x.e, FloatDigits)

\* math.sqrt(x) for x >= 0: the correctly rounded square root of float(x).
\* The coefficient is scaled by an even power of ten to 2*FloatDigits (or
\* one fewer) digits, so that its integer square root has FloatDigits
\* digits; the remainder decides the rounding (a tie is impossible).
sqrt(x) ==
    LET f  == FloatOf(x)
        d  == Digits(f.c)
        m0 == 2 * FloatDigits - d
        m  == IF (f.e - m0) % 2 = 0 THEN m0 ELSE m0 - 1
        n  == f.c * Pow10(m)
        s0 == ISqrt(n)
        s  == IF n - s0 * s0 > s0 THEN s0 + 1 ELSE s0
    IN  IF f.c = 0 THEN Dec(0, 0) ELSE Dec(s, (f.e - m) \div 2)

\* acos(r / 100) in millionths of a radian, for r = -100 .. 100 (index r + 101)
AcosMicro ==
    <<
       3141593, 3000053, 2941258, 2896027, 2857799, 2824032, 2793427, 2765209, 2738877, 2714080,
       2690566, 2668141, 2646659, 2625999, 2606066, 2586782, 2568080, 2549904, 2532207, 2514948,
       2498092, 2481605, 2465462, 2449637, 2434109, 2418858, 2403867, 2389118, 2374599, 2360295,
       2346194, 2332285, 2318559, 2305005, 2291615, 2278381, 2265295, 2252350, 2239539, 2226857,
       2214297, 2201855, 2189525, 2177302, 2165182, 2153161, 2141233, 2129397, 2117647, 2105981,
       2094395, 2082886, 2071451, 2060087, 2048792, 2037562, 2026395, 2015289, 2004242, 1993250,
       1982313, 1971428, 1960593, 1949805, 1939064, 1928367, 1917713, 1907100, 1896526, 1885989,
       1875489, 1865023, 1854590, 1844189, 1833819, 1823477, 1813162, 1802874, 1792611, 1782371,
       1772154, 1761958, 1751783, 1741626, 1731487, 1721365, 1711258, 1701165, 1691086, 1681019,
       1670964, 1660918, 1650882, 1640854, 1630832, 1620817, 1610807, 1600801, 1590798, 1580796,
       1570796, 1560796, 1550795, 1540792, 1530786, 1520775, 1510760, 1500739, 1490711, 1480674,
       1470629, 1460573, 1450506, 1440427, 1430335, 1420228, 1410106, 1399967, 1389810, 1379634,
       1369438, 1359221, 1348982, 1338719, 1328430, 1318116, 1307774, 1297403, 1287002, 1276569,
       1266104, 1255603, 1245067, 1234493, 1223879, 1213225, 1202528, 1191787, 1181000, 1170165,
       1159279, 1148342, 1137351, 1126304, 1115198, 1104031, 1092801, 1081506, 1070142, 1058707,
       1047198, 1035612, 1023945, 1012196, 1000359, 988432, 976411, 964290, 952068, 939737,
       927295, 914736, 902054, 889243, 876298, 863212, 849978, 836588, 823034, 809307,
       795399, 781298, 766994, 752474, 737726, 722734, 707483, 691955, 676131, 659987,
       643501, 626644, 609385, 591689, 573513, 554811, 535527, 515594, 494934, 473451,
       451027, 427512, 402716, 376383, 348166, 317560, 283794, 245566, 200335, 141539,
       0
    >>

DegreesMicro ==
    <<
       180000000, 171890386, 168521659, 165930132, 163739795, 161805128, 160051556, 158434815, 156926082, 155505352,
       154158067, 152873247, 151642363, 150458639, 149316583, 148211669, 147140120, 146098738, 145084794, 144095931,
       143130102, 142185511, 141260575, 140353889, 139464198, 138590378, 137731416, 136886394, 136054480, 135234915,
       134427004, 133630109, 132843643, 132067065, 131299873, 130541602, 129791819, 129050123, 128316134, 127589503,
       126869898, 126157008, 125450543, 124750226, 124055798, 123367013, 122683639, 122005455, 121332251, 120663830,
       120000000, 119340582, 118685402, 118034297, 117387108, 116743684, 116103881, 115467560, 114834587, 114204835,
       113578178, 112954499, 112333683, 111715617, 111100196, 110487315, 109876874, 109268775, 108662925, 108059230,
       107457603, 106857956, 106260205, 105664267, 105070062, 104477512, 103886540, 103297072, 102709033, 102122352,
       101536959, 100952784, 100369760, 99787819, 99206896, 98626927, 98047846, 97469592, 96892103, 96315316,
       95739170, 95163607, 94588566, 94013987, 93439813, 92865984, 92292443, 91719131, 91145992, 90572967,
       90000000, 89427033, 88854008, 88280869, 87707557, 87134016, 86560187, 85986013, 85411434, 84836393,
       84260830, 83684684, 83107897, 82530408, 81952154, 81373073, 80793104, 80212181, 79630240, 79047216,
       78463041, 77877648, 77290967, 76702928, 76113460, 75522488, 74929938, 74335733, 73739795, 73142044,
       72542397, 71940770, 71337075, 70731225, 70123126, 69512685, 68899804, 68284383, 67666317, 67045501,
       66421822, 65795165, 65165413, 64532440, 63896119, 63256316, 62612892, 61965703, 61314598, 60659418,
       60000000, 59336170, 58667749, 57994545, 57316361, 56632987, 55944202, 55249774, 54549457, 53842992,
       53130102, 52410497, 51683866, 50949877, 50208181, 49458398, 48700127, 47932935, 47156357, 46369891,
       45572996, 44765085, 43945520, 43113606, 42268584, 41409622, 40535802, 39646111, 38739425, 37814489,
       36869898, 35904069, 34915206, 33901262, 32859880, 31788331, 30683417, 29541361, 28357637, 27126753,
       25841933, 24494648, 23073918, 21565185, 19948444, 18194872, 16260205, 14069868, 11478341, 8109614,
       0
    >>

\* math.pi in millionths
pi == 3141593

----------------------------------------------------------------------------
(* outcomes of a call: a new Vector, a returned value, or a raised exception *)

CANNOT_NORMALIZE_ZERO_VECTOR_MSG == "Cannot normalize the zero vector"

NO_UNIQUE_PARALLEL_COMPONENT_MSG == "No unique parallel component"

NO_UNIQUE_ORTHOGONAL_COMPONENT_MSG == "No unique orthogonal component"

CANNOT_COMPUTE_ANGLE_MSG == "Cannot compute an angle with zero vector"

NONEMPTY_MSG == "The coordinates must be nonempty"

ITERABLE_MSG == "The coordinates must be an iterable"

Raise(exc, msg) ==
    [kind |-> "error", coordinates |-> <<>>, dimension |-> 0, val |-> None,
     exc |-> exc, msg |-> msg]

Return(v) ==
    [kind |-> "value", coordinates |-> <<>>, dimension |-> 0, val |-> v,
     exc |-> "", msg |-> ""]

\* a list (or tuple) of Python values
PyList(items) == [t |-> "list", items |-> items, n |-> 0]

\* an argument that is no iterable: the int n
PyNonIterable(n) == [t |-> "int", items |-> <<>>, n |-> n]

\* truth value of an argument: a sequence is falsy when empty, an int when 0
Truthy(a) == IF a.t = "list" THEN Len(a.items) > 0 ELSE a.n # 0

\* Vector.__init__ without the emptiness check
Vector_unchecked(coordinates) ==
    IF coordinates.t # "list" THEN Raise("TypeError", ITERABLE_MSG)
    ELSE [kind |-> "vector",
          coordinates |-> [i \in 1..Len(coordinates.items) |->
                               Decimal(coordinates.items[i])],
          dimension |-> Len(coordinates.items),
          val |-> None, exc |-> "", msg |-> ""]

\* Vector.__init__
Vector(coordinates) ==
    IF ~Truthy(coordinates) THEN Raise("ValueError", NONEMPTY_MSG)
    ELSE IF coordinates.t # "list" THEN Raise("TypeError", ITERABLE_MSG)
    ELSE [kind |-> "vector",
          coordinates |-> [i \in 1..Len(coordinates.items) |->
                               Decimal(coordinates.items[i])],
          dimension |-> Len(coordinates.items),
          val |-> None, exc |-> "", msg |-> ""]

\* a zip that yields nothing when the lengths differ
zip_strict(a, b) ==
    IF Len(a) # Len(b) THEN <<>>
    ELSE [i \in 1..Len(a) |-> <<a[i], b[i]>>]

\* zip(a, b): pairs by position, as many as the shorter sequence has
RECURSIVE zip(_, _)
zip(a, b) ==
    IF a = <<>> \/ b = <<>> THEN <<>>
    ELSE <<(<<Head(a), Head(b)>>)>> \o zip(Tail(a), Tail(b))

\* Vector.__eq__: tuple equality of the coordinates
eq(self, v) == self.coordinates = v.coordinates

plus(self, v) ==
    LET z == zip(self.coordinates, v.coordinates)
    IN  Vector(PyList([i \in 1..Len(z) |-> DecAdd(z[i][1], z[i][2])]))

\* minus with the operands of the subtraction swapped
minus_swapped(self, v) ==
    LET z == zip(self.coordinates, v.coordinates)
    IN  Vector(PyList([i \in 1..Len(z) |-> DecSub(z[i][2], z[i][1])]))

minus(self, v) ==
    LET z == zip(self.coordinates, v.coordinates)
    IN  Vector(PyList([i \in 1..Len(z) |-> DecSub(z[i][1], z[i][2])]))

times_scalar(self, c) ==
    Vector(PyList([i \in 1..Len(self.coordinates) |->
                       DecMul(Decimal(c), self.coordinates[i])]))

magnitude(self) ==
    Only({ Return(Decimal(sqrt(s))) :
           s \in {DecSum([i \in 1..Len(self.coordinates) |->
                              DecMul(self.coordinates[i], self.coordinates[i])])} })

normalize(self) ==
    Only({ IF m.c = 0 THEN Raise("Exception", CANNOT_NORMALIZE_ZERO_VECTOR_MSG)
           ELSE Only({ times_scalar(self, c) : c \in {DecDiv(Dec(1, 0), m)} }) :
           m \in {magnitude(self).val} })

dot(self, v) ==
    LET z == zip(self.coordinates, v.coordinates)
    IN  Return(DecSum([i \in 1..Len(z) |-> DecMul(z[i][1], z[i][2])]))

\* acos(round(d, 2)), then the conversion to degrees when asked for
AcosRounded(d, in_degrees) ==
    LET x == DecRound(d, 2)
        r == x.c * Pow10(x.e + 2)
    IN  IF r < -100 \/ r > 100 THEN Raise("ValueError", "math domain error")
        ELSE IF in_degrees THEN Return(PyFloat(DegreesMicro[r + 101]))
        ELSE Return(PyFloat(AcosMicro[r + 101]))

\* angle_with without the except clause: normalize's exception propagates
angle_with_unwrapped(self, v, in_degrees) ==
    Only({ IF u1.kind = "error" THEN u1
           ELSE IF u2.kind = "error" THEN u2
           ELSE Only({ AcosRounded(d, in_degrees) : d \in {dot(u1, u2).val} }) :
           u1 \in {normalize(self)}, u2 \in {normalize(v)} })

angle_with(self, v, in_degrees) ==
    Only({ IF e.kind = "error" /\ e.msg = CANNOT_NORMALIZE_ZERO_VECTOR_MSG
           THEN Raise("Exception", CANNOT_COMPUTE_ANGLE_MSG)
           ELSE e :
           e \in { IF u1.kind = "error" THEN u1
                   ELSE IF u2.kind = "error" THEN u2
                   ELSE Only({ AcosRounded(d, in_degrees) : d \in {dot(u1, u2).val} }) :
                   u1 \in {normalize(self)}, u2 \in {normalize(v)} } })

\* the default tolerance 1e-10 of is_zero and is_orthogonal_to
tolerance == Dec(1, -10)

is_zero(self) ==
    Only({ Return(PyBool(DecLt(m, tolerance))) : m \in {magnitude(self).val} })

\* is_parallel_to that tests the angle against 0 only
is_parallel_to_zero_only(self, v) ==
    IF is_zero(self).val.c = 1 \/ is_zero(v).val.c = 1 THEN Return(PyBool(TRUE))
    ELSE Only({ IF a.kind = "error" THEN a ELSE Return(PyBool(a.val.c = 0)) :
                a \in {angle_with(self, v, FALSE)} })

is_parallel_to(self, v) ==
    IF is_zero(self).val.c = 1 \/ is_zero(v).val.c = 1 THEN Return(PyBool(TRUE))
    ELSE Only({ IF a.kind = "error" THEN a ELSE Return(PyBool(a.val.c \in {0, pi})) :
                a \in {angle_with(self, v, FALSE)} })

is_orthogonal_to(self, v) ==
    Only({ Return(PyBool(DecLt(DecAbs(d), tolerance))) : d \in {dot(self, v).val} })

component_parallel_to(self, basis) ==
    Only({ IF e.kind = "error" /\ e.msg = CANNOT_NORMALIZE_ZERO_VECTOR_MSG
           THEN Raise("Exception", NO_UNIQUE_PARALLEL_COMPONENT_MSG)
           ELSE e :
           e \in { IF u.kind = "error" THEN u
                   ELSE Only({ times_scalar(u, c) : c \in {dot(self, u).val} }) :
                   u \in {normalize(basis)} } })

component_orthogonal_to(self, basis) ==
    Only({ IF p.kind = "error" THEN p ELSE minus(self, p) :
           p \in {component_parallel_to(self, basis)} })

\* x * y of two coordinates: a str operand raises TypeError
IsNumber(x) == x.t = "Decimal"

cross(self, v) ==
    LET self_coordinates == IF self.dimension = 2
                            THEN self.coordinates \o <<PyStr0>>
                            ELSE self.coordinates
        v_coordinates_   == IF v.dimension = 2
                            THEN v.coordinates \o <<PyStr0>>
                            ELSE v.coordinates
    IN  IF Len(self_coordinates) < 3
        THEN Raise("ValueError", "not enough values to unpack")
        ELSE IF Len(self_coordinates) > 3
        THEN Raise("ValueError", "too many values to unpack")
        ELSE IF Len(v.coordinates) < 3
        THEN Raise("ValueError", "not enough values to unpack")
        ELSE IF Len(v.coordinates) > 3
        THEN Raise("ValueError", "too many values to unpack")
        ELSE LET x1 == self_coordinates[1]
                 y1 == self_coordinates[2]
                 z1 == self_coordinates[3]
                 x2 == v.coordinates[1]
                 y2 == v.coordinates[2]
                 z2 == v.coordinates[3]
             IN  IF ~IsNumber(z1)
                 THEN Raise("TypeError", "can't multiply sequence by non-int of type 'decimal.Decimal'")
                 ELSE Vector(PyList(<<
                          DecSub(DecMul(x1, y2), DecMul(y1, x2)),
                          DecSub(DecMul(y1, z2), DecMul(z1, y2)),
                          DecSub(DecNeg(DecMul(x1, z2)), DecMul(z1, x2))
                      >>))

area_of_parallelogram_with(self, v) ==
    Only({ IF c.kind = "error" THEN c ELSE magnitude(c) : c \in {cross(self, v)} })

area_of_triangle_with(self, v) ==
    Only({ IF a.kind = "error" THEN a ELSE Return(DecDiv(a.val, Dec(2, 0))) :
           a \in {area_of_parallelogram_with(self, v)} })

----------------------------------------------------------------------------
(* the state: the Vector objects created so far and the last call's outcome *)

VARIABLES
    heap,    \* the Vector objects, in order of creation; each keeps, beside
             \* its coordinates and dimension, the call that created it
    last,    \* the last call: operation, receiver, argument, outcome
    ncalls   \* number of calls made

vars == <<heap, last, ncalls>>

\* a coordinate with one digit more than the context precision keeps:
\* the constructor stores it exactly
Long == Pow10(prec) + 1

Ints(s) == PyList([i \in 1..Len(s) |-> PyInt(s[i])])

\* the arguments the constructor is called with
Inputs ==
    { PyList(<<>>), PyNonIterable(5),
      PyList(<<PyStr0, PyInt(0)>>),
      Ints(<<1, 2>>),
      Ints(<<1, 2, 3>>), Ints(<<3, 6, 10>>),
      Ints(<<Long>>),
      Ints(<<1, 2, 3, 4>>) }

\* the scalars times_scalar is called with
Scalars == {-1}

NoCall ==
    [op |-> "", self |-> 0, arg |-> 0, in_degrees |-> FALSE,
     input |-> PyList(<<>>), out |-> Return(None), ref |-> 0]

Init ==
    /\ heap = <<>>
    /\ last = NoCall
    /\ ncalls = 0

\* The call op(self, arg) ends with outcome out: a returned Vector is a new
\* object, appended to the heap; no existing object is written.
Call(op, s, a, flag, input, out) ==
    /\ ncalls' = ncalls + 1
    /\ heap' = IF out.kind = "vector"
               THEN Append(heap, [coordinates |-> out.coordinates,
                                  dimension |-> out.dimension,
                                  op |-> op, self |-> s, arg |-> a])
               ELSE heap
    /\ last' = [op |-> op, self |-> s, arg |-> a, in_degrees |-> flag,
                input |-> input, out |-> out,
                ref |-> IF out.kind = "vector" THEN Len(heap) + 1 ELSE 0]

Objects == 1..Len(heap)

Construct ==
    /\ ncalls < MaxCalls
    /\ \E a \in Inputs :
           \E out \in {Vector(a)} :
               Call("Vector", 0, 0, FALSE, a, out)

\* plus that writes the sum into its receiver and returns the receiver
CallPlus_in_place ==
    /\ ncalls < MaxCalls
    /\ \E i, j \in Objects :
           \E out \in {plus(heap[i], heap[j])} :
               /\ ncalls' = ncalls + 1
               /\ heap' = IF out.kind = "vector"
                          THEN [heap EXCEPT ![i].coordinates = out.coordinates,
                                            ![i].dimension = out.dimension]
                          ELSE heap
               /\ last' = [op |-> "plus", self |-> i, arg |-> j, in_degrees |-> FALSE,
                           input |-> PyList(<<>>), out |-> out,
                           ref |-> IF out.kind = "vector" THEN i ELSE 0]

CallPlus ==
    /\ ncalls < MaxCalls
    /\ \E i, j \in Objects :
           \E out \in {plus(heap[i], heap[j])} :
               Call("plus", i, j, FALSE, PyList(<<>>), out)

CallMinus ==
    /\ ncalls < MaxCalls
    /\ \E i, j \in Objects :
           \E out \in {minus(heap[i], heap[j])} :
               Call("minus", i, j, FALSE, PyList(<<>>), out)

CallTimesScalar ==
    /\ ncalls < MaxCalls
    /\ \E i \in Objects, c \in Scalars :
           \E out \in {times_scalar(heap[i], PyInt(c))} :
               Call("times_scalar", i, c, FALSE, PyList(<<>>), out)

CallMagnitude ==
    /\ ncalls < MaxCalls
    /\ \E i \in Objects :
           \E out \in {magnitude(heap[i])} :
               Call("magnitude", i, 0, FALSE, PyList(<<>>), out)

CallNormalize ==
    /\ ncalls < MaxCalls
    /\ \E i \in Objects :
           \E out \in {normalize(heap[i])} :
               Call("normalize", i, 0, FALSE, PyList(<<>>), out)

CallDot ==
    /\ ncalls < MaxCalls
    /\ \E i, j \in Objects :
           \E out \in {dot(heap[i], heap[j])} :
               Call("dot", i, j, FALSE, PyList(<<>>), out)

CallAngleWith ==
    /\ ncalls < MaxCalls
    /\ \E i, j \in Objects, in_degrees \in BOOLEAN :
           \E out \in {angle_with(heap[i], heap[j], in_degrees)} :
               Call("angle_with", i, j, in_degrees, PyList(<<>>), out)

CallIsParallelTo ==
    /\ ncalls < MaxCalls
    /\ \E i, j \in Objects :
           \E out \in {is_parallel_to(heap[i], heap[j])} :
               Call("is_parallel_to", i, j, FALSE, PyList(<<>>), out)

CallIsOrthogonalTo ==
    /\ ncalls < MaxCalls
    /\ \E i, j \in Objects :
           \E out \in {is_orthogonal_to(heap[i], heap[j])} :
               Call("is_orthogonal_to", i, j, FALSE, PyList(<<>>), out)

CallComponentOrthogonalTo ==
    /\ ncalls < MaxCalls
    /\ \E i, j \in Objects :
           \E out \in {component_orthogonal_to(heap[i], heap[j])} :
               Call("component_orthogonal_to", i, j, FALSE, PyList(<<>>), out)

CallComponentParallelTo ==
    /\ ncalls < MaxCalls
    /\ \E i, j \in Objects :
           \E out \in {component_parallel_to(heap[i], heap[j])} :
               Call("component_parallel_to", i, j, FALSE, PyList(<<>>), out)

CallCross ==
    /\ ncalls < MaxCalls
    /\ \E i, j \in Objects :
           \E out \in {cross(heap[i], heap[j])} :
               Call("cross", i, j, FALSE, PyList(<<>>), out)

CallAreaOfParallelogramWith ==
    /\ ncalls < MaxCalls
    /\ \E i, j \in Objects :
           \E out \in {area_of_parallelogram_with(heap[i], heap[j])} :
               Call("area_of_parallelogram_with", i, j, FALSE, PyList(<<>>), out)

CallAreaOfTriangleWith ==
    /\ ncalls < MaxCalls
    /\ \E i, j \in Objects :
           \E out \in {area_of_triangle_with(heap[i], heap[j])} :
               Call("area_of_triangle_with", i, j, FALSE, PyList(<<>>), out)

CallIsZero ==
    /\ ncalls < MaxCalls
    /\ \E i \in Objects :
           \E out \in {is_zero(heap[i])} :
               Call("is_zero", i, 0, FALSE, PyList(<<>>), out)

CallEq ==
    /\ ncalls < MaxCalls
    /\ \E i, j \in Objects :
           \E out \in {Return(PyBool(eq(heap[i], heap[j])))} :
               Call("__eq__", i, j, FALSE, PyList(<<>>), out)

Next ==
    \/ Construct
    \/ CallPlus
    \/ CallMinus
    \/ CallTimesScalar
    \/ CallMagnitude
    \/ CallNormalize
    \/ CallDot
    \/ CallAngleWith
    \/ CallIsParallelTo
    \/ CallIsOrthogonalTo
    \/ CallComponentOrthogonalTo
    \/ CallComponentParallelTo
    \/ CallCross
    \/ CallAreaOfParallelogramWith
    \/ CallAreaOfTriangleWith
    \/ CallIsZero
    \/ CallEq

Spec == Init /\ [][Next]_vars

----------------------------------------------------------------------------
(* vocabulary of the properties *)

Self == heap[last.self]

Arg == heap[last.arg]

\* the last call was op on two existing objects
Called(op) == last.op = op

Returned == last.out.kind = "value"

ReturnedVector == last.out.kind = "vector"

Failed == last.out.kind = "error"

IsZeroVector(v) == \A i \in 1..Len(v.coordinates) : v.coordinates[i].c = 0

\* a 2-dimensional coordinate tuple extended with a zero third coordinate
Extended(v) ==
    IF v.dimension = 2 THEN v.coordinates \o <<Dec(0, 0)>> ELSE v.coordinates

\* the standard 3-dimensional cross product of two coordinate triples
StandardCross(a, b) ==
    << DecSub(DecMul(a[2], b[3]), DecMul(a[3], b[2])),
       DecSub(DecMul(a[3], b[1]), DecMul(a[1], b[3])),
       DecSub(DecMul(a[1], b[2]), DecMul(a[2], b[1])) >>

\* the message the specification asks of cross on an unsupported dimension
CROSS_DIMENSION_MSG == "Cross product only defined for dimension 2 or 3"

\* C1: for 3-dimensional v and w, v.cross(w) returns the standard cross
\* product (y1*z2 - z1*y2, z1*x2 - x1*z2, x1*y2 - y1*x2), in that order.
C1_CrossIsStandard ==
    (Called("cross") /\ Self.dimension = 3 /\ Arg.dimension = 3)
        => /\ ReturnedVector
           /\ last.out.coordinates = StandardCross(Self.coordinates, Arg.coordinates)

\* C2: for 3-dimensional v and w, v.cross(w).is_orthogonal_to(v) and
\* v.cross(w).is_orthogonal_to(w) are both true.
C2_CrossIsOrthogonal ==
    (/\ Called("is_orthogonal_to")
     /\ Self.op = "cross"
     /\ heap[Self.self].dimension = 3 /\ heap[Self.arg].dimension = 3
     /\ last.arg \in {Self.self, Self.arg})
        => (Returned /\ last.out.val = PyBool(TRUE))

\* C3: when an operand of cross has dimension 2 (and the other 2 or 3), the
\* call returns the 3-dimensional cross product of the operands extended
\* with a zero third coordinate; it does not fail.
C3_CrossExtendsDimension2 ==
    (/\ Called("cross")
     /\ Self.dimension \in {2, 3} /\ Arg.dimension \in {2, 3}
     /\ (Self.dimension = 2 \/ Arg.dimension = 2))
        => /\ ReturnedVector
           /\ last.out.dimension = 3
           /\ last.out.coordinates = StandardCross(Extended(Self), Extended(Arg))

\* C4: cross on an operand whose dimension is neither 2 nor 3 fails with an
\* invalid-argument error saying that the cross product is only defined for
\* dimension 2 or 3, and returns no vector.
C4_CrossRejectsDimension ==
    (Called("cross") /\ (Self.dimension \notin {2, 3} \/ Arg.dimension \notin {2, 3}))
        => /\ Failed
           /\ last.out.exc = "ValueError"
           /\ last.out.msg = CROSS_DIMENSION_MSG
           /\ last.ref = 0

\* C5: every Vector that exists has dimension = length(coordinates) >= 1, and
\* construction from an empty sequence fails with the 'coordinates must be
\* nonempty' error and creates no vector.
C5_DimensionInvariant ==
    /\ \A k \in Objects :
           /\ heap[k].dimension = Len(heap[k].coordinates)
           /\ heap[k].dimension >= 1
    /\ (Called("Vector") /\ last.input = PyList(<<>>))
           => /\ Failed
              /\ last.out.exc = "ValueError"
              /\ last.out.msg = NONEMPTY_MSG
              /\ last.ref = 0

C5_Witness ==
    /\ Called("Vector") /\ last.input = PyList(<<>>) /\ Failed
    /\ \E k \in Objects : heap[k].op # "Vector" /\ heap[k].dimension >= 1

\* x has at most prec significant digits
FitsPrecision(x) == Digits(Abs(x.c)) <= prec

\* the exact sum x + y has at most prec significant digits, so that x + y is
\* computed without rounding.  The lowest nonzero digit of the sum is at the
\* smaller exponent; when the operand of larger exponent is more than one
\* digit position above the other, its leading digit survives, which bounds
\* the length of the sum from below without computing it.
SumFitsPrecision(x, y) ==
    IF x.c = 0 THEN FitsPrecision(y)
    ELSE IF y.c = 0 THEN FitsPrecision(x)
    ELSE LET tmp   == IF x.e < y.e THEN y ELSE x
             other == IF x.e < y.e THEN x ELSE y
             at    == Digits(Abs(tmp.c)) + tmp.e
             ao    == Digits(Abs(other.c)) + other.e
         IN  IF at > ao + 1 /\ at - 1 - other.e > prec THEN FALSE
             ELSE Digits(Abs(tmp.c * Pow10(tmp.e - other.e) + other.c)) <= prec

\* no rounding occurs in v.plus(w), and v itself fits the context precision
PlusIsExact(v, w) ==
    \A i \in 1..v.dimension :
        FitsPrecision(v.coordinates[i])
        /\ SumFitsPrecision(v.coordinates[i], w.coordinates[i])

\* the object the receiver of the last call was computed from by plus
PlusSelf == heap[Self.self]

\* the last call is r.minus(w) where r was returned by v.plus(w)
MinusUndoesPlus ==
    /\ Called("minus")
    /\ Self.op = "plus"
    /\ Self.arg = last.arg
    /\ PlusSelf.dimension = Arg.dimension

\* C6 as stated: for all v, w of equal dimension, v.plus(w).minus(w) equals
\* v exactly.
C6_PlusMinusRoundTrip ==
    MinusUndoesPlus => (ReturnedVector /\ eq(last.out, PlusSelf))

\* C6 as amended: for all v, w of equal dimension such that every coordinate
\* of v and every sum v[i] + w[i] fits the context precision,
\* v.plus(w).minus(w) equals v exactly.  The first conjunct is about the two
\* calls made one after the other; the second is about every v.plus(w) that
\* returned, whether or not minus is called next.
C6_PlusMinusRoundTripExact ==
    /\ (MinusUndoesPlus /\ PlusIsExact(PlusSelf, Arg))
           => (ReturnedVector /\ eq(last.out, PlusSelf))
    /\ (/\ Called("plus")
        /\ Self.dimension = Arg.dimension
        /\ PlusIsExact(Self, Arg))
           => (ReturnedVector /\ eq(minus(last.out, Arg), Self))

C6_Witness ==
    /\ MinusUndoesPlus /\ PlusIsExact(PlusSelf, Arg)
    /\ ~IsZeroVector(Arg) /\ PlusSelf.dimension = 3
    /\ ReturnedVector /\ eq(last.out, PlusSelf)

\* C7: a zero vector makes angle_with fail with its own message (either
\* operand) and component_parallel_to and component_orthogonal_to fail with
\* the parallel-component message (zero basis); the caller never sees
\* normalize's message, and nothing is returned.
C7_WrapperErrors ==
    /\ (Called("angle_with") /\ (IsZeroVector(Self) \/ IsZeroVector(Arg)))
           => /\ Failed
              /\ last.out.msg = CANNOT_COMPUTE_ANGLE_MSG
              /\ last.out.msg # CANNOT_NORMALIZE_ZERO_VECTOR_MSG
              /\ last.ref = 0
    /\ ((Called("component_parallel_to") \/ Called("component_orthogonal_to"))
        /\ IsZeroVector(Arg))
           => /\ Failed
              /\ last.out.msg = NO_UNIQUE_PARALLEL_COMPONENT_MSG
              /\ last.out.msg # CANNOT_NORMALIZE_ZERO_VECTOR_MSG
              /\ last.ref = 0

C7_Witness ==
    /\ Called("angle_with") /\ ~IsZeroVector(Self) /\ IsZeroVector(Arg)
    /\ Failed /\ last.out.msg = CANNOT_COMPUTE_ANGLE_MSG

\* C8: no call changes the coordinates or the dimension of an existing
\* Vector, whether it returns or fails, and a call that yields a Vector
\* yields a new object.
C8_Immutable ==
    [][/\ Len(heap') >= Len(heap)
       /\ \A k \in Objects :
              /\ heap'[k].coordinates = heap[k].coordinates
              /\ heap'[k].dimension = heap[k].dimension
       /\ last'.out.kind = "vector"
              => (last'.ref = Len(heap) + 1 /\ Len(heap') = Len(heap) + 1)
       /\ last'.out.kind # "vector" => Len(heap') = Len(heap)]_vars

C8_Witness ==
    /\ Called("cross") /\ ReturnedVector /\ last.ref = 3
    /\ last.self # last.arg

\* the dot product of the normalized operands, rounded to 2 decimal places,
\* in hundredths
RoundedCosine(v, w) ==
    LET x == DecRound(dot(normalize(v), normalize(w)).val, 2)
    IN  x.c * Pow10(x.e + 2)

\* x * y exactly, without rounding
ExactProduct(x, y) == Canon(x.c * y.c, x.e + y.e)

\* one of v and w is a scalar multiple of the other: all 2x2 minors vanish
ScalarMultiples(v, w) ==
    \A i, j \in 1..v.dimension :
        ExactProduct(v.coordinates[i], w.coordinates[j])
            = ExactProduct(v.coordinates[j], w.coordinates[i])

NotZero(v) == is_zero(v).val = PyBool(FALSE)

\* C9 as stated: for nonzero v and w of equal dimension, v.is_parallel_to(w)
\* is true only if one is a scalar multiple of the other; vectors merely
\* close to parallel are reported as not parallel.
C9_ParallelOnlyIfExact ==
    (/\ Called("is_parallel_to")
     /\ ~IsZeroVector(Self) /\ ~IsZeroVector(Arg)
     /\ Self.dimension = Arg.dimension
     /\ Returned /\ last.out.val = PyBool(TRUE))
        => ScalarMultiples(Self, Arg)

\* C9 as amended: for v and w of equal dimension on which is_zero is false,
\* v.is_parallel_to(w) returns true exactly when the dot product of the
\* normalized vectors, rounded to 2 decimal places, is 1.00 or -1.00; this
\* includes vectors that are merely close to parallel.
C9_ParallelIffRoundedCosine ==
    (/\ Called("is_parallel_to")
     /\ NotZero(Self) /\ NotZero(Arg)
     /\ Self.dimension = Arg.dimension)
        => ((Returned /\ last.out.val = PyBool(TRUE))
                <=> RoundedCosine(Self, Arg) \in {100, -100})

C9_Witness ==
    /\ Called("is_parallel_to")
    /\ NotZero(Self) /\ NotZero(Arg)
    /\ Self.dimension = Arg.dimension
    /\ ~ScalarMultiples(Self, Arg)
    /\ Returned /\ last.out.val = PyBool(TRUE)
    /\ RoundedCosine(Self, Arg) = 100

\* the positions both operands have
Shorter == 1..Min(Self.dimension, Arg.dimension)

\* C10: on operands of different dimensions plus, minus and dot do not fail;
\* plus and minus return a vector of the shorter dimension whose i-th
\* coordinate is v[i] + w[i] (resp. v[i] - w[i]), and dot returns the sum of
\* v[i] * w[i] over the positions of the shorter operand.
C10_Truncation ==
    /\ (Called("plus") /\ Self.dimension # Arg.dimension)
           => /\ ReturnedVector
              /\ last.out.dimension = Min(Self.dimension, Arg.dimension)
              /\ Len(last.out.coordinates) = Min(Self.dimension, Arg.dimension)
              /\ \A i \in Shorter :
                     last.out.coordinates[i]
                         = DecAdd(Self.coordinates[i], Arg.coordinates[i])
    /\ (Called("minus") /\ Self.dimension # Arg.dimension)
           => /\ ReturnedVector
              /\ last.out.dimension = Min(Self.dimension, Arg.dimension)
              /\ Len(last.out.coordinates) = Min(Self.dimension, Arg.dimension)
              /\ \A i \in Shorter :
                     last.out.coordinates[i]
                         = DecSub(Self.coordinates[i], Arg.coordinates[i])
    /\ (Called("dot") /\ Self.dimension # Arg.dimension)
           => /\ Returned
              /\ last.out.val
                     = DecSum([i \in Shorter |->
                                   DecMul(Self.coordinates[i], Arg.coordinates[i])])

C10_Witness ==
    /\ Called("plus") /\ Self.dimension = 3 /\ Arg.dimension = 2
    /\ ReturnedVector /\ last.out.dimension = 2
    /\ ~IsZeroVector(Arg)

====
